---- MODULE Spec2Model ----
(***************************************************************************)
(* nerfnet radio-tunnel transport: the secondary endpoint's request        *)
(* handlers (secondary_radio_interface.cc), the primary's poll loop, the   *)
(* tunnel-read workers and the link between the two endpoints.             *)
(*                                                                         *)
(* Two specifications are defined.  SpecSecondary drives the secondary's   *)
(* handlers with arbitrary request frames (any tag, any field presence),   *)
(* as a scripted link would.  Spec is the closed system: a primary and a   *)
(* secondary exchanging frames over a lossy link with a receive timeout.   *)
(***************************************************************************)
EXTENDS Integers, Sequences, FiniteSets, TLC

(***************************************************************************)
(* uint32_t.  A value is kept as two 16-bit halves so that the arithmetic  *)
(* stays exact at the top of the 32-bit range.                             *)
(***************************************************************************)
Half == 2 ^ 16

U32(hi, lo) == [hi |-> hi, lo |-> lo]

\* uint32_t increment, wrapping from 2^32 - 1 to 0.
U32Inc(v) ==
  IF v.lo = Half - 1
  THEN [hi |-> (v.hi + 1) % Half, lo |-> 0]
  ELSE [hi |-> v.hi, lo |-> v.lo + 1]

\* An absent std::optional, no response, no TUN write.  Every optional
\* value of the model is a record, and so is its absence.
None == [none |-> TRUE]

(***************************************************************************)
(* Bounds of the model.                                                    *)
(***************************************************************************)
\* Requests the scripted link hands to the secondary (SpecSecondary).
MaxRequests == 3
\* Datagrams each tunnel-read worker reads from its TUN fd.
MaxDatagrams == 1
\* Frames a link direction holds before further frames are lost.
MaxLink == 2
\* Datagrams the secondary's worker appends in SpecMutex.
MaxAppends == 2
\* Times the primary's next_id_ advances (Spec).
MaxRounds == 4

\* The fragment size of the tunnel protocol.
MaxFragment == 8

(***************************************************************************)
(* Byte strings are sequences of byte values.                              *)
(***************************************************************************)
FrameABCDEFGH == <<65, 66, 67, 68, 69, 70, 71, 72>>
FrameIJKLM == <<73, 74, 75, 76, 77>>
FrameXYZ == <<88, 89, 90>>

\* Datagrams the TUN fds yield: 13 bytes (two fragments), 8 bytes (exactly
\* one fragment) and 3 bytes.
Datagrams == {FrameABCDEFGH \o FrameIJKLM, FrameABCDEFGH, FrameXYZ}

\* Values of id in the first scripted requests: 0, 3 and 2^32 - 1.  Once
\* last_ack_id_ is set, an id is its successor, the same id again, or 5.
FirstIdSamples == {U32(0, 0), U32(0, 3), U32(Half - 1, Half - 1)}

\* Values of Ping.value: 0, 0xDEADBEEF and 2^32 - 1.
PingValues == {U32(0, 0), U32(57005, 48879), U32(Half - 1, Half - 1)}

\* payload and remaining_bytes of scripted requests.
Fragments ==
  {[has_payload |-> FALSE, payload |-> <<>>, remaining_bytes |-> 0],
   [has_payload |-> TRUE, payload |-> FrameABCDEFGH, remaining_bytes |-> 5],
   [has_payload |-> TRUE, payload |-> FrameIJKLM, remaining_bytes |-> 0]}

\* The value next_id_ is constructed with.
InitialIds == {U32(0, 1), U32(Half - 1, Half - 1)}

Min(a, b) == IF a < b THEN a ELSE b

Take(s, n) == SubSeq(s, 1, n)

Drop(s, n) == SubSeq(s, n + 1, Len(s))

(***************************************************************************)
(* Messages.  Optional protobuf fields carry a presence bit; an absent     *)
(* field reads as its default.                                             *)
(***************************************************************************)
PingMsg(has_value, value) ==
  [tag |-> "ping", has_value |-> has_value,
   value |-> IF has_value THEN value ELSE U32(0, 0)]

TunnelMsg(has_id, id, has_ack_id, ack_id, has_payload, payload, remaining) ==
  [tag |-> "network_tunnel_txrx",
   has_id |-> has_id, id |-> IF has_id THEN id ELSE U32(0, 0),
   has_ack_id |-> has_ack_id,
   ack_id |-> IF has_ack_id THEN ack_id ELSE U32(0, 0),
   has_payload |-> has_payload,
   payload |-> IF has_payload THEN payload ELSE <<>>,
   remaining_bytes |-> remaining]

UnknownMsg == [tag |-> "not_set"]

(***************************************************************************)
(* The fields of a RadioInterface.                                         *)
(***************************************************************************)
RadioInterface(id) ==
  [next_id_ |-> id,
   last_ack_id_ |-> None,
   frame_buffer_ |-> <<>>,
   read_buffer_ |-> <<>>,
   payload_in_flight_ |-> FALSE]

VARIABLES
  secondary,        \* the SecondaryRadioInterface object
  primary,          \* the PrimaryRadioInterface object
  primary_state,    \* "Idle" or "Awaiting"
  primary_request,  \* the request composed for the primary's current next_id_
  link_req,         \* frames sent by the primary, not yet received
  link_resp,        \* frames sent by the secondary, not yet received
  enqueued,         \* per endpoint: datagrams its worker has read (history)
  tun_out,          \* per endpoint: the writes to its TUN fd (history)
  handled,          \* the secondary's last Run iteration (history)
  outbound,         \* fragments the secondary passed to Send (history)
  fragments,        \* payloads accepted since the last final one (history)
  outstanding,      \* requests transmitted and neither answered nor timed out
  rx_count,         \* requests the scripted link has delivered
  rounds,           \* times the primary's next_id_ has advanced
  value,            \* the argument of the last EncodeValue call
  encoded_value,    \* the string it returned (<<>> before any call)
  read_buffer_mutex_,  \* the holder of the mutex: "none", "transport", "worker"
  transport,        \* the transport thread inside HandleNetworkTunnelTxRx
  worker            \* the tunnel-read worker of the secondary

vars ==
  <<secondary, primary, primary_state, primary_request, link_req, link_resp,
    enqueued, tun_out, handled, outbound, fragments, outstanding, rx_count,
    rounds, value, encoded_value, read_buffer_mutex_, transport, worker>>

\* The variables of the primary's transport thread and of the link.
primary_vars ==
  <<primary_state, primary_request, outstanding, rounds>>

\* The histories kept of the secondary's Run loop.
run_vars == <<handled, outbound, fragments>>

\* The argument and result of EncodeValue, which no transport step touches.
encode_vars == <<value, encoded_value>>

\* The mutex and the two threads that take it, statement by statement.
mutex_vars == <<read_buffer_mutex_, transport, worker>>

Endpoints == {"primary", "secondary"}

(***************************************************************************)
(* RadioInterface::ValidateID and RadioInterface::AdvanceID.               *)
(***************************************************************************)
ValidateID(last_ack_id, id) ==
  IF last_ack_id = None
  THEN [valid |-> TRUE, last_ack_id_ |-> id]
  ELSE IF id = U32Inc(last_ack_id)
       THEN [valid |-> TRUE, last_ack_id_ |-> id]
       ELSE [valid |-> FALSE, last_ack_id_ |-> last_ack_id]

AdvanceID(next_id) == U32Inc(next_id)

(***************************************************************************)
(* The erase of the transmitted chunk from the front of read_buffer_.      *)
(***************************************************************************)
EraseFront(read_buffer) ==
  IF read_buffer = <<>>
  THEN read_buffer
  ELSE LET frame == Head(read_buffer)
           transfer_size == Min(Len(frame), MaxFragment)
           rest == Drop(frame, transfer_size)
       IN  IF rest = <<>>
           THEN Tail(read_buffer)
           ELSE <<rest>> \o Tail(read_buffer)

(***************************************************************************)
(* SecondaryRadioInterface::HandlePing: the response passed to Send.       *)
(***************************************************************************)
\* A variant that tests the value instead of its presence bit.
HandlePing_TestsValue(ping) ==
  IF ping.has_value /\ ping.value # U32(0, 0)
  THEN PingMsg(TRUE, ping.value)
  ELSE PingMsg(FALSE, U32(0, 0))

HandlePing(ping) ==
  IF ping.has_value
  THEN PingMsg(TRUE, ping.value)
  ELSE PingMsg(FALSE, U32(0, 0))

(***************************************************************************)
(* SecondaryRadioInterface::HandleNetworkTunnelTxRx, in the order of its   *)
(* statements.                                                             *)
(***************************************************************************)
\* Variants of the test: || grouped before &&, and the ack_id test applied
\* before last_ack_id_ is set.
MissingTunnelFields_Grouped(self, tunnel) ==
  (~tunnel.has_id \/ self.last_ack_id_ # None) /\ ~tunnel.has_ack_id

MissingTunnelFields_AlwaysAck(self, tunnel) ==
  ~tunnel.has_id \/ ~tunnel.has_ack_id

\* The "Missing tunnel fields" test: && binds tighter than ||.
MissingTunnelFields(self, tunnel) ==
  ~tunnel.has_id \/ (self.last_ack_id_ # None /\ ~tunnel.has_ack_id)

\* Variants of the receive side: the payload appended whatever ValidateID
\* returned, and frame_buffer_ left uncleared after the write.
ReceivePayload_IgnoresValid(frame_buffer, valid, tunnel, write_ok) ==
  IF tunnel.has_payload
  THEN LET buffer == frame_buffer \o tunnel.payload
       IN  IF tunnel.remaining_bytes = 0
           THEN [frame_buffer_ |-> <<>>,
                 written |-> [data |-> buffer, ok |-> write_ok]]
           ELSE [frame_buffer_ |-> buffer, written |-> None]
  ELSE [frame_buffer_ |-> frame_buffer, written |-> None]

ReceivePayload_NoClear(frame_buffer, valid, tunnel, write_ok) ==
  IF valid /\ tunnel.has_payload
  THEN LET buffer == frame_buffer \o tunnel.payload
       IN  IF tunnel.remaining_bytes = 0
           THEN [frame_buffer_ |-> buffer,
                 written |-> [data |-> buffer, ok |-> write_ok]]
           ELSE [frame_buffer_ |-> buffer, written |-> None]
  ELSE [frame_buffer_ |-> frame_buffer, written |-> None]

\* A variant that assigns the payload to frame_buffer_ instead of appending.
ReceivePayload_Assigns(frame_buffer, valid, tunnel, write_ok) ==
  IF valid /\ tunnel.has_payload
  THEN LET buffer == tunnel.payload
       IN  IF tunnel.remaining_bytes = 0
           THEN [frame_buffer_ |-> <<>>,
                 written |-> [data |-> buffer, ok |-> write_ok]]
           ELSE [frame_buffer_ |-> buffer, written |-> None]
  ELSE [frame_buffer_ |-> frame_buffer, written |-> None]

\* A variant that keeps frame_buffer_ when the write fails, as if to retry.
ReceivePayload_KeepsOnFailure(frame_buffer, valid, tunnel, write_ok) ==
  IF valid /\ tunnel.has_payload
  THEN LET buffer == frame_buffer \o tunnel.payload
       IN  IF tunnel.remaining_bytes = 0
           THEN [frame_buffer_ |-> IF write_ok THEN <<>> ELSE buffer,
                 written |-> [data |-> buffer, ok |-> write_ok]]
           ELSE [frame_buffer_ |-> buffer, written |-> None]
  ELSE [frame_buffer_ |-> frame_buffer, written |-> None]

\* The receive side: valid is ValidateID's result, write_ok the outcome of
\* write() on the TUN fd.  frame_buffer_ is cleared whether or not the write
\* succeeded.
ReceivePayload(frame_buffer, valid, tunnel, write_ok) ==
  IF valid /\ tunnel.has_payload
  THEN LET buffer == frame_buffer \o tunnel.payload
       IN  IF tunnel.remaining_bytes = 0
           THEN [frame_buffer_ |-> <<>>,
                 written |-> [data |-> buffer, ok |-> write_ok]]
           ELSE [frame_buffer_ |-> buffer, written |-> None]
  ELSE [frame_buffer_ |-> frame_buffer, written |-> None]

\* Variants of the ACK branch: next_id_ advanced on any ack_id, and the
\* front fragment erased without testing payload_in_flight_.
ProcessAck_AnyAck(self, tunnel) ==
  IF tunnel.has_ack_id
  THEN [next_id_ |-> AdvanceID(self.next_id_),
        read_buffer_ |-> IF self.payload_in_flight_
                         THEN EraseFront(self.read_buffer_)
                         ELSE self.read_buffer_,
        payload_in_flight_ |-> FALSE]
  ELSE [next_id_ |-> self.next_id_,
        read_buffer_ |-> self.read_buffer_,
        payload_in_flight_ |-> self.payload_in_flight_]

ProcessAck_NoFlightTest(self, tunnel) ==
  IF tunnel.has_ack_id /\ tunnel.ack_id = self.next_id_
  THEN [next_id_ |-> AdvanceID(self.next_id_),
        read_buffer_ |-> EraseFront(self.read_buffer_),
        payload_in_flight_ |-> FALSE]
  ELSE [next_id_ |-> self.next_id_,
        read_buffer_ |-> self.read_buffer_,
        payload_in_flight_ |-> self.payload_in_flight_]

\* A variant that leaves payload_in_flight_ set after the erase.
ProcessAck_KeepsFlight(self, tunnel) ==
  IF tunnel.has_ack_id /\ tunnel.ack_id = self.next_id_
  THEN [next_id_ |-> AdvanceID(self.next_id_),
        read_buffer_ |-> IF self.payload_in_flight_
                         THEN EraseFront(self.read_buffer_)
                         ELSE self.read_buffer_,
        payload_in_flight_ |-> self.payload_in_flight_]
  ELSE [next_id_ |-> self.next_id_,
        read_buffer_ |-> self.read_buffer_,
        payload_in_flight_ |-> self.payload_in_flight_]

\* The ACK branch: it runs whatever ValidateID returned.
ProcessAck(self, tunnel) ==
  IF tunnel.has_ack_id /\ tunnel.ack_id = self.next_id_
  THEN [next_id_ |-> AdvanceID(self.next_id_),
        read_buffer_ |-> IF self.payload_in_flight_
                         THEN EraseFront(self.read_buffer_)
                         ELSE self.read_buffer_,
        payload_in_flight_ |-> FALSE]
  ELSE [next_id_ |-> self.next_id_,
        read_buffer_ |-> self.read_buffer_,
        payload_in_flight_ |-> self.payload_in_flight_]

\* A variant that sends the whole front datagram in one response.
ComposeResponse_WholeFrame(next_id, last_ack_id, read_buffer) ==
  IF read_buffer = <<>>
  THEN TunnelMsg(TRUE, next_id, TRUE, last_ack_id, FALSE, <<>>, 0)
  ELSE TunnelMsg(TRUE, next_id, TRUE, last_ack_id, TRUE,
                 Head(read_buffer), 0)

\* The response: id, ack_id and the fragment at the front of read_buffer_.
ComposeResponse(next_id, last_ack_id, read_buffer) ==
  IF read_buffer = <<>>
  THEN TunnelMsg(TRUE, next_id, TRUE, last_ack_id, FALSE, <<>>, 0)
  ELSE LET frame == Head(read_buffer)
           transfer_size == Min(Len(frame), MaxFragment)
       IN  TunnelMsg(TRUE, next_id, TRUE, last_ack_id, TRUE,
                     Take(frame, transfer_size), Len(frame) - transfer_size)

\* A variant that reads last_ack_id_ for the response before ValidateID has
\* stored the id.
HandleNetworkTunnelTxRx_StaleAckId(self, tunnel, write_ok) ==
  IF MissingTunnelFields(self, tunnel)
  THEN [self |-> self, response |-> None, written |-> None,
        accepted |-> FALSE]
  ELSE
    LET v == ValidateID(self.last_ack_id_, tunnel.id)
        rx == ReceivePayload(self.frame_buffer_, v.valid, tunnel, write_ok)
        ack == ProcessAck(self, tunnel)
        response ==
          ComposeResponse(ack.next_id_, self.last_ack_id_, ack.read_buffer_)
    IN  [self |-> [next_id_ |-> ack.next_id_,
                   last_ack_id_ |-> v.last_ack_id_,
                   frame_buffer_ |-> rx.frame_buffer_,
                   read_buffer_ |-> ack.read_buffer_,
                   payload_in_flight_ |->
                     response.has_payload \/ ack.payload_in_flight_],
         response |-> response,
         written |-> rx.written,
         accepted |-> v.valid]

\* A variant that sets payload_in_flight_ outside the test of read_buffer_.
HandleNetworkTunnelTxRx_AlwaysInFlight(self, tunnel, write_ok) ==
  IF MissingTunnelFields(self, tunnel)
  THEN [self |-> self, response |-> None, written |-> None,
        accepted |-> FALSE]
  ELSE
    LET v == ValidateID(self.last_ack_id_, tunnel.id)
        rx == ReceivePayload(self.frame_buffer_, v.valid, tunnel, write_ok)
        ack == ProcessAck(self, tunnel)
        response ==
          ComposeResponse(ack.next_id_, v.last_ack_id_, ack.read_buffer_)
    IN  [self |-> [next_id_ |-> ack.next_id_,
                   last_ack_id_ |-> v.last_ack_id_,
                   frame_buffer_ |-> rx.frame_buffer_,
                   read_buffer_ |-> ack.read_buffer_,
                   payload_in_flight_ |-> TRUE],
         response |-> response,
         written |-> rx.written,
         accepted |-> v.valid]

\* self is the object before the call.  The result is the object after the
\* call, the response passed to Send (None when the handler returns early),
\* the TUN write performed (None when there is none) and ValidateID's
\* result.
HandleNetworkTunnelTxRx(self, tunnel, write_ok) ==
  IF MissingTunnelFields(self, tunnel)
  THEN [self |-> self, response |-> None, written |-> None,
        accepted |-> FALSE]
  ELSE
    LET v == ValidateID(self.last_ack_id_, tunnel.id)
        rx == ReceivePayload(self.frame_buffer_, v.valid, tunnel, write_ok)
        ack == ProcessAck(self, tunnel)
        response ==
          ComposeResponse(ack.next_id_, v.last_ack_id_, ack.read_buffer_)
    IN  [self |-> [next_id_ |-> ack.next_id_,
                   last_ack_id_ |-> v.last_ack_id_,
                   frame_buffer_ |-> rx.frame_buffer_,
                   read_buffer_ |-> ack.read_buffer_,
                   payload_in_flight_ |->
                     response.has_payload \/ ack.payload_in_flight_],
         response |-> response,
         written |-> rx.written,
         accepted |-> v.valid]

(***************************************************************************)
(* SecondaryRadioInterface::HandleRequest: dispatch on the request's tag.  *)
(***************************************************************************)
\* A variant whose default case falls into the Ping case.
HandleRequest_DefaultPing(self, request, write_ok) ==
  IF request.tag = "network_tunnel_txrx"
  THEN HandleNetworkTunnelTxRx(self, request, write_ok)
  ELSE [self |-> self,
        response |-> IF request.tag = "ping"
                     THEN HandlePing(request)
                     ELSE PingMsg(FALSE, U32(0, 0)),
        written |-> None, accepted |-> FALSE]

HandleRequest(self, request, write_ok) ==
  IF request.tag = "ping"
  THEN [self |-> self, response |-> HandlePing(request), written |-> None,
        accepted |-> FALSE]
  ELSE IF request.tag = "network_tunnel_txrx"
       THEN HandleNetworkTunnelTxRx(self, request, write_ok)
       ELSE [self |-> self, response |-> None, written |-> None,
             accepted |-> FALSE]

(***************************************************************************)
(* EncodeValue (encode_decode.cc): the four bytes pushed onto the string,  *)
(* each the uint8_t cast of the value shifted right by 0, 8, 16 and 24.    *)
(***************************************************************************)
\* value >> bits on uint32_t, for 0 <= bits < 32.
ShiftRight(v, bits) ==
  IF bits < 16
  THEN [hi |-> v.hi \div (2 ^ bits),
        lo |-> (v.hi % (2 ^ bits)) * (2 ^ (16 - bits)) + v.lo \div (2 ^ bits)]
  ELSE [hi |-> 0, lo |-> v.hi \div (2 ^ (bits - 16))]

\* static_cast<uint8_t> of a uint32_t.
CastUint8(v) == v.lo % 256

\* A variant that pushes the most significant byte first.
EncodeValue_BigEndian(v) ==
  <<CastUint8(ShiftRight(v, 24)), CastUint8(ShiftRight(v, 16)),
    CastUint8(ShiftRight(v, 8)), CastUint8(v)>>

EncodeValue(v) ==
  <<CastUint8(v), CastUint8(ShiftRight(v, 8)),
    CastUint8(ShiftRight(v, 16)), CastUint8(ShiftRight(v, 24))>>

(***************************************************************************)
(* Construction: both objects are built with an empty frame buffer, an     *)
(* empty read buffer, no last_ack_id_ and payload_in_flight_ false.        *)
(***************************************************************************)
Init ==
  /\ secondary \in {RadioInterface(id) : id \in InitialIds}
  /\ primary = RadioInterface(U32(0, 1))
  /\ primary_state = "Idle"
  /\ primary_request = None
  /\ link_req = <<>>
  /\ link_resp = <<>>
  /\ enqueued = [e \in Endpoints |-> <<>>]
  /\ tun_out = [e \in Endpoints |-> <<>>]
  /\ handled = [seq |-> 0, request |-> UnknownMsg, success |-> FALSE,
                response |-> None, written |-> None, accepted |-> FALSE,
                status |-> FALSE]
  /\ outbound = {}
  /\ fragments = <<>>
  /\ outstanding = 0
  /\ rx_count = 0
  /\ rounds = 0
  /\ value = U32(0, 0)
  /\ encoded_value = <<>>
  /\ read_buffer_mutex_ = "none"
  /\ transport = [pc |-> "Receive", tunnel |-> UnknownMsg, entry |-> None,
                  response |-> None]
  /\ worker = [pc |-> "Read", datagram |-> <<>>]

(***************************************************************************)
(* One iteration of SecondaryRadioInterface::Run: Receive has produced     *)
(* request with result Success (success) or another result; on Success the *)
(* request is handled.  status is the outcome of Send, should the handler  *)
(* call it.                                                                *)
(***************************************************************************)
\* A variant that handles the request whatever Receive returned.
RunIteration_IgnoresResult(self, request, success, write_ok) ==
  HandleRequest(self, request, write_ok)

RunIteration(self, request, success, write_ok) ==
  IF success
  THEN HandleRequest(self, request, write_ok)
  ELSE [self |-> self, response |-> None, written |-> None,
        accepted |-> FALSE]

Run(request, success, write_ok, status) ==
  LET r == RunIteration(secondary, request, success, write_ok)
      fragment == r.accepted /\ request.has_payload
  IN  /\ secondary' = r.self
      /\ tun_out' = IF r.written = None
                    THEN tun_out
                    ELSE [tun_out EXCEPT !["secondary"] = Append(@, r.written)]
      /\ handled' = [seq |-> 1 - handled.seq, request |-> request,
                     success |-> success, response |-> r.response,
                     written |-> r.written, accepted |-> r.accepted,
                     status |-> (r.response # None /\ status)]
      /\ outbound' = IF r.response # None
                        /\ r.response.tag = "network_tunnel_txrx"
                        /\ r.response.has_payload
                     THEN outbound \cup
                            {[id |-> r.response.id,
                              payload |-> r.response.payload]}
                     ELSE outbound
      /\ fragments' = IF ~fragment
                      THEN fragments
                      ELSE IF request.remaining_bytes = 0
                           THEN <<>>
                           ELSE Append(fragments, request.payload)

(***************************************************************************)
(* The tunnel-read worker of an endpoint: one read of the TUN fd appended  *)
(* to read_buffer_ under the mutex.                                        *)
(***************************************************************************)
TunnelRead(e) ==
  /\ Len(enqueued[e]) < MaxDatagrams
  /\ \E d \in Datagrams :
       /\ enqueued' = [enqueued EXCEPT ![e] = Append(@, d)]
       /\ IF e = "secondary"
          THEN /\ secondary' =
                    [secondary EXCEPT !.read_buffer_ = Append(@, d)]
               /\ UNCHANGED primary
          ELSE /\ primary' = [primary EXCEPT !.read_buffer_ = Append(@, d)]
               /\ UNCHANGED secondary
  /\ UNCHANGED <<primary_vars, run_vars, link_req, link_resp, tun_out,
                 rx_count, encode_vars, mutex_vars>>

(***************************************************************************)
(* SpecSecondary: the link is scripted and hands the secondary any request *)
(* frame; what the secondary transmits is discarded by the link.           *)
(***************************************************************************)
ScriptedIds ==
  IF secondary.last_ack_id_ = None
  THEN FirstIdSamples
  ELSE {U32Inc(secondary.last_ack_id_), secondary.last_ack_id_, U32(0, 5)}

ScriptedAckIds == {U32(0, 0), secondary.next_id_}

ScriptedRequests ==
  {PingMsg(FALSE, U32(0, 0))}
  \cup {PingMsg(TRUE, v) : v \in PingValues}
  \cup {UnknownMsg}
  \cup {TunnelMsg(FALSE, U32(0, 0), ha, secondary.next_id_, TRUE,
                   FrameIJKLM, 0) : ha \in BOOLEAN}
  \cup {TunnelMsg(TRUE, id, ha, ack, f.has_payload, f.payload,
                   f.remaining_bytes) :
          id \in ScriptedIds, ha \in BOOLEAN, ack \in ScriptedAckIds,
          f \in Fragments}

ScriptedReceive ==
  /\ rx_count < MaxRequests
  /\ \E request \in ScriptedRequests, write_ok \in BOOLEAN,
        status \in BOOLEAN :
       LET r == RunIteration(secondary, request, TRUE, write_ok)
       IN  /\ write_ok \/ r.written # None
           /\ status \/ r.response # None
           /\ Run(request, TRUE, write_ok, status)
  /\ rx_count' = rx_count + 1
  /\ UNCHANGED <<primary, primary_vars, link_req, link_resp, enqueued,
                 encode_vars, mutex_vars>>

NextSecondary ==
  \/ ScriptedReceive
  \/ TunnelRead("secondary")

SpecSecondary == Init /\ [][NextSecondary]_vars

(***************************************************************************)
(* SpecEncode: EncodeValue called with any of the sampled arguments.       *)
(***************************************************************************)
\* 16-bit halves of the arguments: the ends of the range, the byte
\* boundaries, and halves whose two bytes differ.
HalfSamples ==
  {0, 1, 255, 256, 257, 258, 772, 32767, 32768, 48879, 57005, Half - 1}

EncodeSamples == {U32(hi, lo) : hi \in HalfSamples, lo \in HalfSamples}

Encode ==
  /\ \E v \in EncodeSamples :
       /\ value' = v
       /\ encoded_value' = EncodeValue(v)
  /\ UNCHANGED <<secondary, primary, primary_vars, run_vars, link_req,
                 link_resp, enqueued, tun_out, rx_count, mutex_vars>>

SpecEncode == Init /\ [][Encode]_vars

(***************************************************************************)
(* SpecMutex: HandleNetworkTunnelTxRx statement by statement, interleaved  *)
(* with the secondary's tunnel-read worker.  transport.pc is the position  *)
(* of the transport thread, transport.entry the object as it was when the  *)
(* lock was taken.                                                         *)
(***************************************************************************)
\* Requests handed to the handler: with and without ack_id, sequential and
\* repeated ids, matching and stale ack_ids.
MutexRequests ==
  {TunnelMsg(TRUE, id, ha, ack, FALSE, <<>>, 0) :
     id \in IF secondary.last_ack_id_ = None
            THEN {U32(0, 0)}
            ELSE {U32Inc(secondary.last_ack_id_), secondary.last_ack_id_},
     ha \in BOOLEAN,
     ack \in ScriptedAckIds}

\* Run: Receive returned Success with a NetworkTunnelTxRx request.
TransportReceive ==
  /\ transport.pc = "Receive"
  /\ rx_count < MaxRequests
  /\ \E tunnel \in MutexRequests :
       transport' = [pc |-> "Lock", tunnel |-> tunnel, entry |-> None,
                     response |-> None]
  /\ rx_count' = rx_count + 1
  /\ UNCHANGED <<secondary, primary, primary_vars, run_vars, link_req,
                 link_resp, enqueued, tun_out, encode_vars,
                 read_buffer_mutex_, worker>>

\* A variant that enters the handler without the lock_guard.
TransportLock_NoMutex ==
  /\ transport.pc = "Lock"
  /\ transport' = [transport EXCEPT !.pc = "Validate", !.entry = secondary]
  /\ UNCHANGED <<secondary, primary, primary_vars, run_vars, link_req,
                 link_resp, enqueued, tun_out, rx_count, encode_vars,
                 read_buffer_mutex_, worker>>

\* std::lock_guard<std::mutex> lock(read_buffer_mutex_): blocks until the
\* mutex is free.
TransportLock ==
  /\ transport.pc = "Lock"
  /\ read_buffer_mutex_ = "none"
  /\ read_buffer_mutex_' = "transport"
  /\ transport' = [transport EXCEPT !.pc = "Validate", !.entry = secondary]
  /\ UNCHANGED <<secondary, primary, primary_vars, run_vars, link_req,
                 link_resp, enqueued, tun_out, rx_count, encode_vars, worker>>

\* The required-field test (early return) and the receive side.
TransportValidate ==
  /\ transport.pc = "Validate"
  /\ IF MissingTunnelFields(secondary, transport.tunnel)
     THEN /\ transport' = [transport EXCEPT !.pc = "Unlock"]
          /\ UNCHANGED <<secondary, tun_out>>
     ELSE LET v == ValidateID(secondary.last_ack_id_, transport.tunnel.id)
              rx == ReceivePayload(secondary.frame_buffer_, v.valid,
                                   transport.tunnel, TRUE)
          IN  /\ secondary' = [secondary EXCEPT
                                 !.last_ack_id_ = v.last_ack_id_,
                                 !.frame_buffer_ = rx.frame_buffer_]
              /\ tun_out' = IF rx.written = None
                            THEN tun_out
                            ELSE [tun_out EXCEPT
                                    !["secondary"] = Append(@, rx.written)]
              /\ transport' = [transport EXCEPT !.pc = "Ack"]
  /\ UNCHANGED <<primary, primary_vars, run_vars, link_req, link_resp,
                 enqueued, rx_count, encode_vars, read_buffer_mutex_, worker>>

\* The ack_id branch: AdvanceID and the erase of the fragment in flight.
TransportAck ==
  /\ transport.pc = "Ack"
  /\ LET ack == ProcessAck(secondary, transport.tunnel)
     IN  secondary' = [secondary EXCEPT
                         !.next_id_ = ack.next_id_,
                         !.read_buffer_ = ack.read_buffer_,
                         !.payload_in_flight_ = ack.payload_in_flight_]
  /\ transport' = [transport EXCEPT !.pc = "Compose"]
  /\ UNCHANGED <<primary, primary_vars, run_vars, link_req, link_resp,
                 enqueued, tun_out, rx_count, encode_vars,
                 read_buffer_mutex_, worker>>

\* The composition of the response from the front of read_buffer_.
TransportCompose ==
  /\ transport.pc = "Compose"
  /\ LET response == ComposeResponse(secondary.next_id_,
                                     secondary.last_ack_id_,
                                     secondary.read_buffer_)
     IN  /\ transport' = [transport EXCEPT !.pc = "Send",
                                           !.response = response]
         /\ secondary' = [secondary EXCEPT
                            !.payload_in_flight_ = @ \/ response.has_payload]
  /\ UNCHANGED <<primary, primary_vars, run_vars, link_req, link_resp,
                 enqueued, tun_out, rx_count, encode_vars,
                 read_buffer_mutex_, worker>>

\* Send(response); its status is only logged.
TransportSend ==
  /\ transport.pc = "Send"
  /\ transport' = [transport EXCEPT !.pc = "Unlock"]
  /\ UNCHANGED <<secondary, primary, primary_vars, run_vars, link_req,
                 link_resp, enqueued, tun_out, rx_count, encode_vars,
                 read_buffer_mutex_, worker>>

\* The end of the handler's scope: the lock_guard releases the mutex.
TransportUnlock ==
  /\ transport.pc = "Unlock"
  /\ read_buffer_mutex_' = "none"
  /\ transport' = [transport EXCEPT !.pc = "Receive"]
  /\ UNCHANGED <<secondary, primary, primary_vars, run_vars, link_req,
                 link_resp, enqueued, tun_out, rx_count, encode_vars, worker>>

\* The worker reads a datagram from the TUN fd.
WorkerRead ==
  /\ worker.pc = "Read"
  /\ Len(enqueued["secondary"]) < MaxAppends
  /\ \E d \in Datagrams :
       /\ worker' = [pc |-> "Lock", datagram |-> d]
       /\ enqueued' = [enqueued EXCEPT !["secondary"] = Append(@, d)]
  /\ UNCHANGED <<secondary, primary, primary_vars, run_vars, link_req,
                 link_resp, tun_out, rx_count, encode_vars,
                 read_buffer_mutex_, transport>>

\* The worker takes the buffer mutex.
WorkerLock ==
  /\ worker.pc = "Lock"
  /\ read_buffer_mutex_ = "none"
  /\ read_buffer_mutex_' = "worker"
  /\ worker' = [worker EXCEPT !.pc = "Append"]
  /\ UNCHANGED <<secondary, primary, primary_vars, run_vars, link_req,
                 link_resp, enqueued, tun_out, rx_count, encode_vars,
                 transport>>

\* The worker appends the datagram at the back and releases the mutex.
WorkerAppend ==
  /\ worker.pc = "Append"
  /\ secondary' = [secondary EXCEPT !.read_buffer_ =
                                      Append(@, worker.datagram)]
  /\ read_buffer_mutex_' = "none"
  /\ worker' = [pc |-> "Read", datagram |-> <<>>]
  /\ UNCHANGED <<primary, primary_vars, run_vars, link_req, link_resp,
                 enqueued, tun_out, rx_count, encode_vars, transport>>

NextMutex ==
  \/ TransportReceive
  \/ TransportLock
  \/ TransportValidate
  \/ TransportAck
  \/ TransportCompose
  \/ TransportSend
  \/ TransportUnlock
  \/ WorkerRead
  \/ WorkerLock
  \/ WorkerAppend

SpecMutex == Init /\ [][NextMutex]_vars

(***************************************************************************)
(* The primary's transfer round.  In Idle it composes a NetworkTunnelTxRx  *)
(* request carrying id = next_id_, ack_id = last_ack_id_ when present and  *)
(* the fragment at the front of read_buffer_, and transmits it.  Until     *)
(* next_id_ advances, a retransmission carries the same id and the same    *)
(* payload as the request first composed for that id.                      *)
(***************************************************************************)
ComposeRequest(self, composed) ==
  IF composed # None
  THEN TunnelMsg(TRUE, self.next_id_, self.last_ack_id_ # None,
                 self.last_ack_id_, composed.has_payload, composed.payload,
                 composed.remaining_bytes)
  ELSE IF self.read_buffer_ = <<>>
  THEN TunnelMsg(TRUE, self.next_id_, self.last_ack_id_ # None,
                 self.last_ack_id_, FALSE, <<>>, 0)
  ELSE LET frame == Head(self.read_buffer_)
           transfer_size == Min(Len(frame), MaxFragment)
       IN  TunnelMsg(TRUE, self.next_id_, self.last_ack_id_ # None,
                     self.last_ack_id_, TRUE, Take(frame, transfer_size),
                     Len(frame) - transfer_size)

\* The frame reaches the peer's receive queue when the transmission
\* succeeds and the queue has room; otherwise it is lost.
Transmit(queue, frame, ok) ==
  IF ok /\ Len(queue) < MaxLink THEN Append(queue, frame) ELSE queue

\* ok: the link reports the frame sent; on a TransmitError the primary
\* retries on its next cycle.
PrimaryTransmit(ok) ==
  /\ primary_state = "Idle"
  /\ rounds < MaxRounds
  /\ LET request == ComposeRequest(primary, primary_request)
     IN  /\ link_req' = Transmit(link_req, request, ok)
         /\ primary_request' = request
         /\ primary' = [primary EXCEPT
                          !.payload_in_flight_ = @ \/ request.has_payload]
  /\ primary_state' = IF ok THEN "Awaiting" ELSE "Idle"
  /\ outstanding' = IF ok THEN outstanding + 1 ELSE outstanding
  /\ UNCHANGED <<secondary, run_vars, link_resp, enqueued, tun_out, rx_count,
                 rounds, encode_vars, mutex_vars>>

PrimarySend == \E ok \in BOOLEAN : PrimaryTransmit(ok)

(***************************************************************************)
(* The primary in Awaiting receives a response: on a valid id the payload  *)
(* is appended to frame_buffer_ (and flushed to the TUN fd when            *)
(* remaining_bytes is 0) and an ack_id equal to next_id_ advances next_id_ *)
(* and erases the fragment in flight.  An invalid message changes nothing. *)
(***************************************************************************)
HandleResponse(self, response, write_ok) ==
  IF response.tag # "network_tunnel_txrx" \/ ~response.has_id
  THEN [self |-> self, written |-> None, advanced |-> FALSE]
  ELSE
    LET v == ValidateID(self.last_ack_id_, response.id)
        rx == ReceivePayload(self.frame_buffer_, v.valid, response, write_ok)
        acked == v.valid /\ response.has_ack_id
                 /\ response.ack_id = self.next_id_
    IN  [self |-> [next_id_ |-> IF acked
                                THEN AdvanceID(self.next_id_)
                                ELSE self.next_id_,
                   last_ack_id_ |-> v.last_ack_id_,
                   frame_buffer_ |-> rx.frame_buffer_,
                   read_buffer_ |-> IF acked /\ self.payload_in_flight_
                                    THEN EraseFront(self.read_buffer_)
                                    ELSE self.read_buffer_,
                   payload_in_flight_ |-> IF acked
                                          THEN FALSE
                                          ELSE self.payload_in_flight_],
         written |-> rx.written,
         advanced |-> acked]

PrimaryReceive ==
  /\ primary_state = "Awaiting"
  /\ link_resp # <<>>
  /\ \E write_ok \in BOOLEAN :
       LET r == HandleResponse(primary, Head(link_resp), write_ok)
       IN  /\ write_ok \/ r.written # None
           /\ primary' = r.self
           /\ tun_out' = IF r.written = None
                         THEN tun_out
                         ELSE [tun_out EXCEPT
                                 !["primary"] = Append(@, r.written)]
           /\ rounds' = IF r.advanced THEN rounds + 1 ELSE rounds
           /\ primary_request' = IF r.advanced THEN None ELSE primary_request
  /\ link_resp' = Tail(link_resp)
  /\ primary_state' = "Idle"
  /\ outstanding' = 0
  /\ UNCHANGED <<secondary, run_vars, link_req, enqueued, rx_count,
                 encode_vars, mutex_vars>>

\* No response arrived within rf_delay_us.
PrimaryTimeout ==
  /\ primary_state = "Awaiting"
  /\ link_resp = <<>>
  /\ primary_state' = "Idle"
  /\ outstanding' = 0
  /\ UNCHANGED <<secondary, primary, primary_request, rounds, run_vars,
                 link_req, link_resp, enqueued, tun_out, rx_count,
                 encode_vars, mutex_vars>>

(***************************************************************************)
(* The secondary's Run loop on the link: Receive takes the oldest request  *)
(* frame; the response, when Send succeeds, goes to the primary's queue.   *)
(***************************************************************************)
SecondaryReceive(success, status) ==
  /\ link_req # <<>>
  /\ \E write_ok \in BOOLEAN :
       LET r == RunIteration(secondary, Head(link_req), success, write_ok)
       IN  /\ write_ok \/ r.written # None
           /\ status \/ r.response # None
           /\ Run(Head(link_req), success, write_ok, status)
           /\ link_resp' = IF r.response = None
                           THEN link_resp
                           ELSE Transmit(link_resp, r.response, status)
  /\ link_req' = Tail(link_req)
  /\ UNCHANGED <<primary, primary_vars, enqueued, rx_count, encode_vars,
                 mutex_vars>>

SecondaryRun ==
  \E success \in BOOLEAN, status \in BOOLEAN :
    SecondaryReceive(success, status)

Next ==
  \/ PrimarySend
  \/ PrimaryReceive
  \/ PrimaryTimeout
  \/ SecondaryRun
  \/ TunnelRead("primary")
  \/ TunnelRead("secondary")

Spec == Init /\ [][Next]_vars

(***************************************************************************)
(* FairSpec: both transport loops keep running and the link does not lose  *)
(* every frame forever: a transmission that succeeds, and a reception that *)
(* succeeds with its response sent, recur whenever they stay possible.     *)
(***************************************************************************)
FairSpec ==
  /\ Spec
  /\ WF_vars(PrimaryReceive)
  /\ WF_vars(PrimaryTimeout)
  /\ SF_vars(PrimaryTransmit(TRUE))
  /\ SF_vars(SecondaryReceive(TRUE, TRUE))

(***************************************************************************)
(* Properties.                                                             *)
(***************************************************************************)
Peer(e) == IF e = "primary" THEN "secondary" ELSE "primary"

IsPrefix(s, t) ==
  /\ Len(s) <= Len(t)
  /\ \A i \in 1..Len(s) : s[i] = t[i]

\* The byte strings an endpoint has written to its TUN fd, in order.
Written(e) == [i \in 1..Len(tun_out[e]) |-> tun_out[e][i].data]

\* C1: in each direction the byte strings written to the receiver's TUN are
\* at every moment a prefix of the datagrams the sender's worker enqueued:
\* nothing is duplicated, reordered, truncated, merged or skipped.
OrderPreservation ==
  \A e \in Endpoints : IsPrefix(Written(e), enqueued[Peer(e)])

\* C2: under FairSpec every datagram enqueued on an endpoint is eventually
\* written unchanged to the peer's TUN (or the model's bound on the
\* primary's ids is reached first).
EventualDelivery ==
  \A e \in Endpoints : \A k \in 1..MaxDatagrams :
    (Len(enqueued[e]) >= k)
      ~> (\/ rounds = MaxRounds
          \/ /\ Len(tun_out[Peer(e)]) >= k
             /\ tun_out[Peer(e)][k].data = enqueued[e][k])

(***************************************************************************)
(* Steps of the secondary's Run loop, as seen in a pair of states.         *)
(***************************************************************************)
\* The step is one iteration of the Run loop.
Handling == handled'.seq # handled.seq

\* The step handles a NetworkTunnelTxRx request.
TunnelHandling ==
  /\ Handling
  /\ handled'.success
  /\ handled'.request.tag = "network_tunnel_txrx"

\* read_buffer with the first n bytes of its front datagram erased.
RemoveFront(read_buffer, n) ==
  IF n = Len(Head(read_buffer))
  THEN Tail(read_buffer)
  ELSE <<Drop(Head(read_buffer), n)>> \o Tail(read_buffer)

RECURSIVE Concat(_)
Concat(ss) == IF ss = <<>> THEN <<>> ELSE Head(ss) \o Concat(Tail(ss))

(***************************************************************************)
(* C3.                                                                     *)
(***************************************************************************)
\* C3 as stated: the first request carrying an id is accepted and sets
\* last_ack_id_ to it; thereafter a received id is accepted iff it is the
\* successor of last_ack_id_ modulo 2^32, and acceptance sets last_ack_id_.
MonotonicIdsAnyRequest ==
  [][LET req == handled'.request
         a == secondary.last_ack_id_
     IN  IF TunnelHandling /\ req.has_id
         THEN /\ a = None =>
                   /\ handled'.accepted
                   /\ secondary'.last_ack_id_ = req.id
              /\ a # None =>
                   /\ handled'.accepted <=> (req.id = U32Inc(a))
                   /\ secondary'.last_ack_id_ =
                        IF handled'.accepted THEN req.id ELSE a
         ELSE /\ secondary'.last_ack_id_ = a
              /\ Handling => ~handled'.accepted]_vars

\* C3, amended: the same, for the requests that pass the required-field
\* test (an id, and an ack_id once last_ack_id_ is set); any other request
\* is not accepted and leaves last_ack_id_ alone.
MonotonicIds ==
  [][LET req == handled'.request
         a == secondary.last_ack_id_
     IN  IF TunnelHandling /\ req.has_id /\ (a = None \/ req.has_ack_id)
         THEN /\ a = None =>
                   /\ handled'.accepted
                   /\ secondary'.last_ack_id_ = req.id
              /\ a # None =>
                   /\ handled'.accepted <=> (req.id = U32Inc(a))
                   /\ secondary'.last_ack_id_ =
                        IF handled'.accepted THEN req.id ELSE a
         ELSE /\ secondary'.last_ack_id_ = a
              /\ Handling => ~handled'.accepted]_vars

\* Two fragments were accepted in a row and the second had id 0: the first
\* had id 2^32 - 1.
MonotonicIdsWitness ==
  /\ Len(fragments) = 2
  /\ handled.accepted
  /\ handled.request.id = U32(0, 0)
  /\ secondary.last_ack_id_ = U32(0, 0)

(***************************************************************************)
(* C4.                                                                     *)
(***************************************************************************)
\* C4: a handled request whose ack_id is present and differs from next_id_
\* leaves next_id_ and read_buffer_ unchanged and does not clear
\* payload_in_flight_; next_id_ changes only in a step that handles a
\* request with ack_id = next_id_, and then to its successor.
NoPhantomAdvance ==
  [][LET req == handled'.request
     IN  /\ (TunnelHandling /\ req.has_ack_id
               /\ req.ack_id # secondary.next_id_) =>
              /\ secondary'.next_id_ = secondary.next_id_
              /\ secondary'.read_buffer_ = secondary.read_buffer_
              /\ secondary.payload_in_flight_ => secondary'.payload_in_flight_
         /\ secondary'.next_id_ # secondary.next_id_ =>
              /\ TunnelHandling
              /\ req.has_ack_id
              /\ req.ack_id = secondary.next_id_
              /\ secondary'.next_id_ = U32Inc(secondary.next_id_)]_vars

\* A request with a stale ack_id was handled while a fragment was in flight.
NoPhantomAdvanceWitness ==
  /\ handled.success
  /\ handled.request.tag = "network_tunnel_txrx"
  /\ handled.response # None
  /\ handled.request.has_ack_id
  /\ handled.request.ack_id # secondary.next_id_
  /\ U32Inc(handled.request.ack_id) # secondary.next_id_
  /\ secondary.payload_in_flight_
  /\ outbound # {}

(***************************************************************************)
(* C5.                                                                     *)
(***************************************************************************)
\* C5: read_buffer_ changes only by the worker's append at the back, or by
\* the erase, while a request is handled, of the bytes at its front that an
\* earlier response carried under the id the request acknowledges.
StopAndWaitRetention ==
  [][LET rb == secondary.read_buffer_
     IN  \/ secondary'.read_buffer_ = rb
         \/ /\ ~Handling
            /\ \E d \in Datagrams : secondary'.read_buffer_ = Append(rb, d)
         \/ /\ TunnelHandling
            /\ handled'.request.has_ack_id
            /\ rb # <<>>
            /\ \E o \in outbound :
                 /\ o.id = handled'.request.ack_id
                 /\ o.payload # <<>>
                 /\ IsPrefix(o.payload, Head(rb))
                 /\ secondary'.read_buffer_ =
                      RemoveFront(rb, Len(o.payload))]_vars

\* The first fragment of a 13-byte datagram has been acknowledged and erased.
StopAndWaitRetentionWitness ==
  /\ enqueued["secondary"] = <<FrameABCDEFGH \o FrameIJKLM>>
  /\ secondary.read_buffer_ = <<FrameIJKLM>>
  /\ handled.request.tag = "network_tunnel_txrx"
  /\ handled.request.has_ack_id

(***************************************************************************)
(* C6.                                                                     *)
(***************************************************************************)
\* C6 as stated: a request whose id is not the successor of last_ack_id_
\* leaves frame_buffer_, the TUN, next_id_, read_buffer_, payload_in_flight_
\* and last_ack_id_ alone, and a response carrying ack_id = last_ack_id_ is
\* still produced.
NonSequentialSkipsAll ==
  [][LET req == handled'.request
         a == secondary.last_ack_id_
     IN  (TunnelHandling /\ req.has_id /\ a # None /\ req.id # U32Inc(a)) =>
           /\ secondary'.frame_buffer_ = secondary.frame_buffer_
           /\ tun_out' = tun_out
           /\ secondary'.next_id_ = secondary.next_id_
           /\ secondary'.read_buffer_ = secondary.read_buffer_
           /\ secondary'.payload_in_flight_ = secondary.payload_in_flight_
           /\ secondary'.last_ack_id_ = a
           /\ handled'.response # None
           /\ handled'.response.tag = "network_tunnel_txrx"
           /\ handled'.response.has_ack_id
           /\ handled'.response.ack_id = a]_vars

\* C6, amended: a non-sequential request without ack_id is rejected: no
\* response, nothing changed.  One with ack_id has its payload ignored
\* (frame_buffer_ and the TUN untouched), leaves last_ack_id_ alone and is
\* answered with id = next_id_ and ack_id = last_ack_id_; its ACK is
\* processed as for any request (ack_id = next_id_ advances next_id_ and
\* erases the fragment in flight), and payload_in_flight_ is set when the
\* response carries a fragment.
NonSequentialRequest ==
  [][LET req == handled'.request
         a == secondary.last_ack_id_
         acked == req.ack_id = secondary.next_id_
         rb == secondary.read_buffer_
     IN  (TunnelHandling /\ req.has_id /\ a # None /\ req.id # U32Inc(a)) =>
           IF ~req.has_ack_id
           THEN /\ handled'.response = None
                /\ secondary' = secondary
                /\ tun_out' = tun_out
           ELSE /\ secondary'.frame_buffer_ = secondary.frame_buffer_
                /\ tun_out' = tun_out
                /\ secondary'.last_ack_id_ = a
                /\ handled'.response # None
                /\ handled'.response.tag = "network_tunnel_txrx"
                /\ handled'.response.has_id
                /\ handled'.response.id = secondary'.next_id_
                /\ handled'.response.has_ack_id
                /\ handled'.response.ack_id = a
                /\ secondary'.next_id_ =
                     IF acked
                     THEN U32Inc(secondary.next_id_)
                     ELSE secondary.next_id_
                /\ secondary'.read_buffer_ =
                     IF acked /\ secondary.payload_in_flight_ /\ rb # <<>>
                     THEN RemoveFront(rb, Min(Len(Head(rb)), MaxFragment))
                     ELSE rb
                /\ secondary'.payload_in_flight_ =
                     (\/ handled'.response.has_payload
                      \/ (secondary.payload_in_flight_ /\ ~acked))]_vars

\* S5 with an ack_id: {id=5, ack_id, payload} was handled with
\* last_ack_id_ = 3 and answered with ack_id = 3.
NonSequentialRequestWitness ==
  /\ handled.success
  /\ handled.request.tag = "network_tunnel_txrx"
  /\ handled.request.id = U32(0, 5)
  /\ handled.request.has_payload
  /\ secondary.last_ack_id_ = U32(0, 3)
  /\ handled.response # None
  /\ handled.response.ack_id = U32(0, 3)
  /\ ~handled.accepted

(***************************************************************************)
(* C7.                                                                     *)
(***************************************************************************)
\* C7: a NetworkTunnelTxRx request is rejected (no response is passed to
\* Send) iff its id is absent, or its ack_id is absent while last_ack_id_ is
\* set; a rejected request changes nothing.
MalformedRequest ==
  [][LET req == handled'.request
         malformed == \/ ~req.has_id
                      \/ (secondary.last_ack_id_ # None /\ ~req.has_ack_id)
     IN  TunnelHandling =>
           /\ malformed <=> (handled'.response = None)
           /\ malformed => /\ secondary' = secondary
                           /\ tun_out' = tun_out]_vars

\* A request with an id and no ack_id was rejected after last_ack_id_ was
\* set.
MalformedRequestWitness ==
  /\ handled.success
  /\ handled.request.tag = "network_tunnel_txrx"
  /\ handled.request.has_id
  /\ ~handled.request.has_ack_id
  /\ secondary.last_ack_id_ # None
  /\ handled.response = None

(***************************************************************************)
(* C8.                                                                     *)
(***************************************************************************)
\* C8: the TUN is written exactly when an accepted request carries a payload
\* with remaining_bytes = 0, once, with the concatenation of the payloads
\* accepted since the previous such request; no other step writes.
Reassembly ==
  [][IF /\ Handling
        /\ handled'.accepted
        /\ handled'.request.has_payload
        /\ handled'.request.remaining_bytes = 0
     THEN /\ Len(tun_out'["secondary"]) = Len(tun_out["secondary"]) + 1
          /\ SubSeq(tun_out'["secondary"], 1, Len(tun_out["secondary"]))
               = tun_out["secondary"]
          /\ tun_out'["secondary"][Len(tun_out'["secondary"])].data
               = Concat(fragments) \o handled'.request.payload
     ELSE tun_out'["secondary"] = tun_out["secondary"]]_vars

\* S1: {id=0, "ABCDEFGH", remaining 5} then {id=1, ack_id=0, "IJKLM",
\* remaining 0} gave one write of "ABCDEFGHIJKLM".
ReassemblyWitness ==
  /\ rx_count = 2
  /\ tun_out["secondary"] =
       <<[data |-> FrameABCDEFGH \o FrameIJKLM, ok |-> TRUE]>>
  /\ handled.request =
       TunnelMsg(TRUE, U32(0, 1), TRUE, U32(0, 0), TRUE, FrameIJKLM, 0)

(***************************************************************************)
(* C9.                                                                     *)
(***************************************************************************)
\* C9: a handled Ping request has one Ping response passed to Send, carrying
\* value v iff the request carried value v.
PingRoundTrip ==
  (handled.success /\ handled.request.tag = "ping") =>
    /\ handled.response # None
    /\ handled.response.tag = "ping"
    /\ handled.response.has_value = handled.request.has_value
    /\ handled.request.has_value =>
         handled.response.value = handled.request.value

\* Ping{value=0} was answered.
PingRoundTripWitness ==
  /\ handled.success
  /\ handled.request = PingMsg(TRUE, U32(0, 0))
  /\ handled.response # None

(***************************************************************************)
(* C10.                                                                    *)
(***************************************************************************)
\* The secondary transmits only in a step that handles a successfully
\* received request, and one frame at most; the primary transmits only from
\* Idle with no request outstanding.
PacingStep ==
  /\ Len(link_resp') <= Len(link_resp) + 1
  /\ (Handling /\ handled'.response # None) =>
       /\ handled'.success
       /\ link_req # <<>>
       /\ handled'.request = Head(link_req)
       /\ link_req' = Tail(link_req)
  /\ Len(link_resp') > Len(link_resp) =>
       /\ Handling
       /\ handled'.response # None
       /\ link_resp' = Append(link_resp, handled'.response)
  /\ Len(link_req') > Len(link_req) =>
       /\ primary_state = "Idle"
       /\ primary_state' = "Awaiting"
       /\ outstanding = 0
       /\ Len(link_req') = Len(link_req) + 1

\* C10: at most one request of the primary is outstanding, and the
\* secondary sends at most one response per successfully received request
\* and nothing unsolicited.
StopAndWaitPacing == [](outstanding <= 1) /\ [][PacingStep]_vars

\* A response is queued for the primary while its one request is
\* outstanding.
StopAndWaitPacingWitness ==
  /\ outstanding = 1
  /\ primary_state = "Awaiting"
  /\ link_resp # <<>>
  /\ handled.success
  /\ handled.response # None

(***************************************************************************)
(* C11.                                                                    *)
(***************************************************************************)
\* C11: EncodeValue(v) is a string of exactly 4 bytes, the little-endian
\* representation of v: bytes 0 and 1 are the low and high byte of the low
\* 16 bits of v, bytes 2 and 3 those of its high 16 bits.
LittleEndianEncoding ==
  encoded_value # <<>> =>
    /\ Len(encoded_value) = 4
    /\ \A i \in 1..4 : encoded_value[i] \in 0..255
    /\ encoded_value[1] + 256 * encoded_value[2] = value.lo
    /\ encoded_value[3] + 256 * encoded_value[4] = value.hi

\* S6: 0x01020304 was encoded to 04 03 02 01.
LittleEndianEncodingWitness ==
  /\ value = U32(258, 772)
  /\ encoded_value = <<4, 3, 2, 1>>

(***************************************************************************)
(* C12.                                                                    *)
(***************************************************************************)
\* C12 as stated: between handling steps frame_buffer_ holds exactly the
\* payloads accepted since the last accepted fragment with remaining_bytes =
\* 0 (so it is non-empty only when at least one fragment of the current
\* datagram has been accepted and the final one has not); it is empty at
\* startup and right after every handling of an accepted message with
\* remaining_bytes = 0, whether or not the message carries a payload.
FrameBufferAnyAccepted ==
  /\ [](secondary.frame_buffer_ = Concat(fragments))
  /\ [][(/\ Handling
         /\ handled'.accepted
         /\ handled'.request.remaining_bytes = 0)
        => secondary'.frame_buffer_ = <<>>]_vars

\* C12, amended: the same, with frame_buffer_ empty right after every
\* handling of an accepted message that carries a payload with
\* remaining_bytes = 0; an accepted message without payload leaves
\* frame_buffer_ as it was.
FrameBufferInvariant ==
  /\ [](secondary.frame_buffer_ = Concat(fragments))
  /\ [][IF Handling /\ handled'.accepted /\ handled'.request.has_payload
        THEN secondary'.frame_buffer_ =
               IF handled'.request.remaining_bytes = 0
               THEN <<>>
               ELSE secondary.frame_buffer_ \o handled'.request.payload
        ELSE secondary'.frame_buffer_ = secondary.frame_buffer_]_vars

\* An accepted request without payload (remaining_bytes 0) was handled while
\* the first fragment of a datagram was buffered, and the fragment is still
\* buffered.
FrameBufferInvariantWitness ==
  /\ handled.accepted
  /\ handled.request.tag = "network_tunnel_txrx"
  /\ ~handled.request.has_payload
  /\ handled.request.remaining_bytes = 0
  /\ secondary.frame_buffer_ = FrameABCDEFGH
  /\ fragments = <<FrameABCDEFGH>>

(***************************************************************************)
(* C13.                                                                    *)
(***************************************************************************)
\* C13 as stated: payload_in_flight_ is true iff the most recent message
\* passed to Send, of any kind, carried a payload not yet acknowledged.  It
\* is false at startup, every step that sends a message leaves it equal to
\* "that message carries a payload", and no other step changes it.
PayloadInFlightAnyMessage ==
  /\ ~secondary.payload_in_flight_
  /\ [][IF Handling /\ handled'.response # None
        THEN secondary'.payload_in_flight_ <=>
               /\ handled'.response.tag = "network_tunnel_txrx"
               /\ handled'.response.has_payload
        ELSE secondary'.payload_in_flight_ = secondary.payload_in_flight_]_vars

\* C13, amended: the same for the most recent NetworkTunnelTxRx response; a
\* Ping response, like a rejected or unknown request, leaves
\* payload_in_flight_ as it was.
PayloadInFlightInvariant ==
  /\ ~secondary.payload_in_flight_
  /\ [][IF /\ Handling
           /\ handled'.response # None
           /\ handled'.response.tag = "network_tunnel_txrx"
        THEN secondary'.payload_in_flight_ <=> handled'.response.has_payload
        ELSE secondary'.payload_in_flight_ = secondary.payload_in_flight_]_vars

\* A Ping was answered while a fragment was in flight.
PayloadInFlightInvariantWitness ==
  /\ handled.success
  /\ handled.request.tag = "ping"
  /\ handled.response # None
  /\ secondary.payload_in_flight_
  /\ outbound # {}

(***************************************************************************)
(* C14.                                                                    *)
(***************************************************************************)
\* C14: a tunnel response composed with a non-empty read_buffer_, front
\* datagram D, carries the first min(8, |D|) bytes of D and remaining_bytes
\* = |D| - |payload|, and sets payload_in_flight_; D stays whole at the
\* front of read_buffer_, which is as the ACK branch left it.  With an empty
\* read_buffer_ the response carries no payload and remaining_bytes 0, and
\* payload_in_flight_ is not set by it.
SendSideFragmentation ==
  [][LET req == handled'.request
         resp == handled'.response
         rb == secondary.read_buffer_
         after == secondary'.read_buffer_
         acked == req.has_ack_id /\ req.ack_id = secondary.next_id_
     IN  (TunnelHandling /\ resp # None) =>
           /\ resp.tag = "network_tunnel_txrx"
           /\ after = IF acked /\ secondary.payload_in_flight_ /\ rb # <<>>
                      THEN RemoveFront(rb, Min(Len(Head(rb)), MaxFragment))
                      ELSE rb
           /\ IF after # <<>>
              THEN LET n == IF Len(Head(after)) < MaxFragment
                            THEN Len(Head(after))
                            ELSE MaxFragment
                   IN  /\ resp.has_payload
                       /\ resp.payload = SubSeq(Head(after), 1, n)
                       /\ resp.remaining_bytes = Len(Head(after)) - n
                       /\ secondary'.payload_in_flight_
              ELSE /\ ~resp.has_payload
                   /\ resp.payload = <<>>
                   /\ resp.remaining_bytes = 0
                   /\ secondary'.payload_in_flight_ =>
                        secondary.payload_in_flight_]_vars

\* The first fragment of a 13-byte datagram was sent with remaining_bytes 5
\* and the datagram is still whole at the front of read_buffer_.
SendSideFragmentationWitness ==
  /\ handled.response # None
  /\ handled.response.tag = "network_tunnel_txrx"
  /\ handled.response.payload = FrameABCDEFGH
  /\ handled.response.remaining_bytes = 5
  /\ secondary.read_buffer_ = <<FrameABCDEFGH \o FrameIJKLM>>
  /\ secondary.payload_in_flight_

(***************************************************************************)
(* C15.                                                                    *)
(***************************************************************************)
\* The step handles again the request accepted by the previous iteration of
\* the Run loop.
Retransmission ==
  /\ TunnelHandling
  /\ handled.success
  /\ handled.accepted
  /\ handled'.request = handled.request

\* C15: a request received again right after it was accepted is answered
\* with the id and ack_id of the previous response and, when that response
\* carried a fragment, with the same payload and remaining_bytes; its
\* payload is not appended to frame_buffer_ again, nothing more is written
\* to the TUN, and next_id_ is not advanced again.
RetransmissionAnswered ==
  [][Retransmission =>
       /\ handled'.response # None
       /\ handled'.response.id = handled.response.id
       /\ handled'.response.has_ack_id = handled.response.has_ack_id
       /\ handled'.response.ack_id = handled.response.ack_id
       /\ handled.response.has_payload =>
            /\ handled'.response.has_payload
            /\ handled'.response.payload = handled.response.payload
            /\ handled'.response.remaining_bytes =
                 handled.response.remaining_bytes
       /\ secondary'.frame_buffer_ = secondary.frame_buffer_
       /\ tun_out' = tun_out
       /\ secondary'.next_id_ = secondary.next_id_]_vars

\* The same for the retransmissions that carry an ack_id, which is every
\* retransmission but that of the first request of a session.
RetransmissionWithAckAnswered ==
  [][(Retransmission /\ handled.request.has_ack_id) =>
       /\ handled'.response # None
       /\ handled'.response.id = handled.response.id
       /\ handled'.response.ack_id = handled.response.ack_id
       /\ handled.response.has_payload =>
            /\ handled'.response.has_payload
            /\ handled'.response.payload = handled.response.payload
            /\ handled'.response.remaining_bytes =
                 handled.response.remaining_bytes
       /\ secondary'.frame_buffer_ = secondary.frame_buffer_
       /\ tun_out' = tun_out
       /\ secondary'.next_id_ = secondary.next_id_]_vars

(***************************************************************************)
(* C16.                                                                    *)
(***************************************************************************)
\* C16: a request whose tag is neither Ping nor NetworkTunnelTxRx has
\* nothing passed to Send and changes no field of the secondary nor the
\* TUN; the request handled next is served: a Ping is answered, and so is a
\* NetworkTunnelTxRx request carrying the required fields.
UnknownRequestTag ==
  [][/\ (Handling /\ handled'.success /\ handled'.request.tag = "not_set") =>
          /\ handled'.response = None
          /\ secondary' = secondary
          /\ tun_out' = tun_out
     /\ (/\ Handling
         /\ handled'.success
         /\ handled.success
         /\ handled.request.tag = "not_set") =>
          /\ handled'.request.tag = "ping" =>
               /\ handled'.response # None
               /\ handled'.response.tag = "ping"
          /\ (/\ handled'.request.tag = "network_tunnel_txrx"
              /\ handled'.request.has_id
              /\ secondary.last_ack_id_ # None => handled'.request.has_ack_id)
             => /\ handled'.response # None
                /\ handled'.response.tag = "network_tunnel_txrx"]_vars

\* An unknown request was dropped while a fragment was in flight and a
\* datagram was being reassembled.
UnknownRequestTagWitness ==
  /\ handled.success
  /\ handled.request = UnknownMsg
  /\ handled.response = None
  /\ secondary.payload_in_flight_
  /\ secondary.frame_buffer_ # <<>>

(***************************************************************************)
(* C17.                                                                    *)
(***************************************************************************)
\* C17: when the write of the completed frame_buffer_ fails, it is written
\* once and not again, frame_buffer_ is cleared, the id is accepted
\* (last_ack_id_ = id), the ACK is processed and the response composed and
\* passed to Send exactly as when the write succeeds.
TunWriteFailure ==
  [][LET req == handled'.request
         ok == HandleRequest(secondary, req, TRUE)
     IN  (Handling /\ handled'.written # None /\ ~handled'.written.ok) =>
           /\ Len(tun_out'["secondary"]) = Len(tun_out["secondary"]) + 1
           /\ secondary'.frame_buffer_ = <<>>
           /\ handled'.accepted
           /\ secondary'.last_ack_id_ = req.id
           /\ secondary'.next_id_ =
                IF req.has_ack_id /\ req.ack_id = secondary.next_id_
                THEN U32Inc(secondary.next_id_)
                ELSE secondary.next_id_
           /\ handled'.response # None
           /\ handled'.response.id = secondary'.next_id_
           /\ handled'.response.ack_id = req.id
           /\ secondary' = ok.self
           /\ handled'.response = ok.response
           /\ handled'.written.data = ok.written.data]_vars

\* The write of the reassembled "ABCDEFGHIJKLM" failed; frame_buffer_ is
\* empty and the response was composed.
TunWriteFailureWitness ==
  /\ handled.written # None
  /\ ~handled.written.ok
  /\ handled.written.data = FrameABCDEFGH \o FrameIJKLM
  /\ secondary.frame_buffer_ = <<>>
  /\ handled.response # None

(***************************************************************************)
(* C18.                                                                    *)
(***************************************************************************)
\* The transport thread is between the lock_guard and the end of the
\* handler.
InHandler == transport.pc \in {"Validate", "Ack", "Compose", "Send", "Unlock"}

\* C18: the handler is one critical section under read_buffer_mutex_.  The
\* worker is never inside its append while the handler runs; read_buffer_
\* changes only by the handler's erase or, outside the handler, by the
\* worker's append of a whole datagram at the back, which leaves the bytes
\* at the front as they were; and what the handler leaves behind and sends
\* is what it would with no worker running, computed from the object as it
\* was when the lock was taken.
ReadBufferSerialization ==
  /\ [](~(InHandler /\ worker.pc = "Append"))
  /\ [][secondary'.read_buffer_ # secondary.read_buffer_ =>
          \/ /\ transport.pc = "Ack"
             /\ transport'.pc = "Compose"
             /\ worker' = worker
          \/ /\ worker.pc = "Append"
             /\ ~InHandler
             /\ transport' = transport
             /\ secondary'.read_buffer_ =
                  Append(secondary.read_buffer_, worker.datagram)
             /\ secondary.read_buffer_ # <<>> =>
                  Head(secondary'.read_buffer_)
                    = Head(secondary.read_buffer_)]_vars
  /\ [](transport.pc = "Send" =>
          LET r == HandleNetworkTunnelTxRx(transport.entry, transport.tunnel,
                                           TRUE)
          IN  /\ secondary = r.self
              /\ transport.response = r.response)

\* The worker, holding a datagram, waits for the mutex while the handler
\* has erased the acknowledged fragment and not yet composed its response.
ReadBufferSerializationWitness ==
  /\ worker.pc = "Lock"
  /\ transport.pc = "Compose"
  /\ read_buffer_mutex_ = "transport"
  /\ transport.entry.payload_in_flight_
  /\ secondary.read_buffer_ # transport.entry.read_buffer_

(***************************************************************************)
(* C19.                                                                    *)
(***************************************************************************)
\* The number of bytes queued in read_buffer.
QueuedBytes(read_buffer) == Len(Concat(read_buffer))

\* C19: whenever payload_in_flight_ is true, read_buffer_ is non-empty and
\* so is its front datagram; the erase at a matching ack_id with
\* payload_in_flight_ set removes between 1 and 8 bytes.
InFlightImpliesQueued ==
  /\ [](secondary.payload_in_flight_ =>
          /\ secondary.read_buffer_ # <<>>
          /\ Head(secondary.read_buffer_) # <<>>)
  /\ [][LET req == handled'.request
        IN  (/\ TunnelHandling
             /\ req.has_id
             /\ req.has_ack_id
             /\ req.ack_id = secondary.next_id_
             /\ secondary.payload_in_flight_)
            => (QueuedBytes(secondary.read_buffer_)
                  - QueuedBytes(secondary'.read_buffer_))
                 \in 1..MaxFragment]_vars

\* The second fragment of a 13-byte datagram is in flight after the erase
\* of the first.
InFlightImpliesQueuedWitness ==
  /\ secondary.payload_in_flight_
  /\ secondary.read_buffer_ = <<FrameIJKLM>>
  /\ enqueued["secondary"] = <<FrameABCDEFGH \o FrameIJKLM>>
  /\ handled.response # None
  /\ handled.response.payload = FrameIJKLM

(***************************************************************************)
(* C20.                                                                    *)
(***************************************************************************)
\* C20: last_ack_id_ holds a value wherever the handler reads it: when a
\* request that passed the required-field test is found non-sequential, and
\* when a response is composed; every tunnel response passed to Send
\* carries id = next_id_ and ack_id = last_ack_id_.
LastAckIdPresent ==
  [][LET req == handled'.request
         resp == handled'.response
     IN  TunnelHandling =>
           /\ (resp # None /\ ~handled'.accepted) =>
                /\ secondary.last_ack_id_ # None
                /\ secondary'.last_ack_id_ = secondary.last_ack_id_
           /\ resp # None =>
                /\ secondary'.last_ack_id_ # None
                /\ resp.tag = "network_tunnel_txrx"
                /\ resp.has_id
                /\ resp.id = secondary'.next_id_
                /\ resp.has_ack_id
                /\ resp.ack_id = secondary'.last_ack_id_
           /\ resp = None =>
                (~req.has_id \/ (secondary.last_ack_id_ # None
                                 /\ ~req.has_ack_id))]_vars

\* The first request of a session, {id = 2^32 - 1} without ack_id, was
\* answered with ack_id = 2^32 - 1.
LastAckIdPresentWitness ==
  /\ rx_count = 1
  /\ handled.success
  /\ handled.request.tag = "network_tunnel_txrx"
  /\ ~handled.request.has_ack_id
  /\ handled.request.id = U32(Half - 1, Half - 1)
  /\ handled.response # None
  /\ handled.response.ack_id = U32(Half - 1, Half - 1)

====
